---- MODULE Spec2Model ----
(***************************************************************************)
(* Model of the permission/hierarchy core of the TAYA ERP platform:        *)
(*   - HierarchyService (src/src/lib/services/TeamService.ts)              *)
(*   - PermissionService (src/unnamed/part_007)                            *)
(*   - the tables they use (supabase/migrations/..._schema.sql)            *)
(* Every service method is one atomic action (sequential calls); queries   *)
(* that change nothing are operators over the current store.  The          *)
(* specifications of concurrent calls split a method at its awaits: each   *)
(* store read and each store write is a step of its own.                   *)
(***************************************************************************)
EXTENDS Naturals, Integers, Sequences, FiniteSets, Bags, TLC

VARIABLES
    users,        \* table users: id -> [organization_id, role, active]
    hierarchy,    \* table management_hierarchy: a bag of rows
    outcome,      \* how the last service call ended: "ok", or the error it threw
    assignments,  \* table user_permissions: rows in ascending order of updated_at
    calls,        \* number of PermissionService calls made so far
    mergeArgs,    \* the arguments of a mergePermissions call: <<base, override>>
    mergeResult,  \* <<>> before the call, <<document>> after it
    inflight      \* the concurrent calls: caller -> position and local values

hierarchyVars == <<hierarchy>>
permissionVars == <<assignments, calls>>
mergeVars == <<mergeArgs, mergeResult>>
callVars == <<inflight>>
vars == <<users, hierarchy, outcome, assignments, calls, mergeArgs, mergeResult, inflight>>

(***************************************************************************)
(* Bounds and input sets                                                   *)
(***************************************************************************)
MaxEdges == 3               \* rows in management_hierarchy
MaxCalls == 3               \* PermissionService calls in one behaviour
MaxTemplateCalls == 4       \* calls in one behaviour of TemplateSpec

NULL == "null"              \* SQL NULL / JS null / undefined argument

UserIds == {"A", "B", "C", "D", "X"}     \* rows of table users
UnknownUser == "Z"                       \* an id with no row in users
UserInputs == UserIds \cup {UnknownUser}
TeamIds == {"T1"}
TeamInputs == TeamIds \cup {NULL}
Scopes == {"team", "org_wide"}
\* the (teamId, scope) arguments the calls are made with
ScopeInputs == {<<"T1", "team">>, <<NULL, "org_wide">>}
ManagedInputs == {"A", "B", "C", "D", UnknownUser}
\* the managerId arguments the calls are made with
ManagerInputs == {"A", "B", "C", "X", UnknownUser}

\* the callers of the concurrent calls, none of them in a call
Callers == {"c1", "c2"}
NoCalls == [caller \in Callers |-> [pc |-> "idle"]]

InitialUsers ==
    [id \in UserIds |->
        [organization_id |-> IF id = "X" THEN "O2" ELSE "O1",
         role |-> CASE id = "A" -> "member"
                    [] id = "B" -> "manager"
                    [] id = "C" -> "lead"
                    [] id = "D" -> "senior_manager"
                    [] OTHER -> "org_admin",
         active |-> TRUE]]

(***************************************************************************)
(* Generic helpers                                                         *)
(***************************************************************************)
Range(s) == {s[i] : i \in 1..Len(s)}

Min(S) == CHOOSE x \in S : \A y \in S : x <= y

RECURSIVE SumCopies(_, _)
SumCopies(S, bag) ==
    IF S = {} THEN 0
    ELSE LET r == CHOOSE x \in S : TRUE
         IN bag[r] + SumCopies(S \ {r}, bag)

\* number of rows of the bag that satisfy the filter given as a set of rows
CountRows(S, bag) == SumCopies(S, bag)

\* rows of a bag in the order the database returns them (one fixed order)
RECURSIVE RowsToSeq(_, _)
RowsToSeq(S, bag) ==
    IF S = {} THEN <<>>
    ELSE LET r == CHOOSE x \in S : TRUE
         IN [i \in 1..bag[r] |-> r] \o RowsToSeq(S \ {r}, bag)

(***************************************************************************)
(* UserService                                                             *)
(***************************************************************************)
\* UserService.getUser(id) !== null
UserFound(id) == id \in DOMAIN users

\* the update written by updateUser: the fields of data with id and
\* organization_id taken out
UpdateData(data) ==
    [f \in DOMAIN data \ {"id", "organization_id"} |-> data[f]]

\* an updateUser that writes data as it was passed
updateUserUnfiltered(userId, data) ==
    /\ UNCHANGED <<hierarchyVars, permissionVars, mergeVars, callVars>>
    /\ IF ~UserFound(userId)
       THEN outcome' = "update_failed" /\ UNCHANGED users
       ELSE /\ outcome' = "ok"
            /\ users' = [users EXCEPT ![userId] =
                            [f \in DOMAIN @ |-> IF f \in DOMAIN data THEN data[f] ELSE @[f]]]

\* updateUser(userId, data) for data without an email; the update of a row
\* that does not exist makes .single() report an error
updateUser(userId, data) ==
    /\ UNCHANGED <<hierarchyVars, permissionVars, mergeVars, callVars>>
    /\ IF ~UserFound(userId)
       THEN outcome' = "update_failed" /\ UNCHANGED users
       ELSE /\ outcome' = "ok"
            /\ users' = [users EXCEPT ![userId] =
                            [f \in DOMAIN @ |->
                                IF f \in DOMAIN UpdateData(data)
                                THEN UpdateData(data)[f] ELSE @[f]]]

(***************************************************************************)
(* HierarchyService: queries                                               *)
(***************************************************************************)
ActiveRows == {r \in DOMAIN hierarchy : r.active}

\* .eq('team_id', teamId || null): an equality filter never matches SQL NULL
EqTeam(r, teamId) == teamId # NULL /\ r.team_id = teamId

\* getDirectReports(managerId, teamId?): ids of the users returned, in row order
getDirectReports(managerId, teamId) ==
    LET rows == {r \in ActiveRows :
                    /\ r.manager_id = managerId
                    /\ r.level = 1
                    /\ (teamId # NULL => r.team_id = teamId)}
        data == RowsToSeq(rows, hierarchy)
    IN SelectSeq([i \in 1..Len(data) |-> data[i].manages_user_id],
                 LAMBDA id : UserFound(id) /\ users[id].active)

\* the for-loops of getAllReports over the indirect reports of one report
RECURSIVE AddIndirect(_, _, _, _)
AddIndirect(indirectReports, i, allReports, reportUsers) ==
    IF i > Len(indirectReports) THEN [allReports |-> allReports, reportUsers |-> reportUsers]
    ELSE IF indirectReports[i] \notin allReports
         THEN AddIndirect(indirectReports, i + 1,
                          allReports \cup {indirectReports[i]},
                          Append(reportUsers, indirectReports[i]))
         ELSE AddIndirect(indirectReports, i + 1, allReports, reportUsers)

\* getAllReports(managerId) called from the calls for the managers in callPath.
\* The call reads the same rows every time it is made, so a call for a
\* manager whose own call is still open repeats that call: the recursion
\* never returns (returns = FALSE).
RECURSIVE getAllReportsFrom(_, _)
RECURSIVE ExpandReports(_, _, _, _, _)
ExpandReports(directReports, i, allReports, reportUsers, callPath) ==
    IF i > Len(directReports) THEN [returns |-> TRUE, reportUsers |-> reportUsers]
    ELSE LET indirect == getAllReportsFrom(directReports[i], callPath)
         IN IF ~indirect.returns THEN [returns |-> FALSE, reportUsers |-> <<>>]
            ELSE LET acc == AddIndirect(indirect.reportUsers, 1, allReports, reportUsers)
                 IN ExpandReports(directReports, i + 1, acc.allReports, acc.reportUsers, callPath)

\* a getAllReports that forgets the recursive expansion
getAllReportsDirectOnly(managerId, callPath) ==
    [returns |-> TRUE, reportUsers |-> getDirectReports(managerId, NULL)]

getAllReportsFrom(managerId, callPath) ==
    IF managerId \in callPath THEN [returns |-> FALSE, reportUsers |-> <<>>]
    ELSE LET directReports == getDirectReports(managerId, NULL)
         IN ExpandReports(directReports, 1, Range(directReports), directReports,
                          callPath \cup {managerId})

getAllReports(managerId) == getAllReportsFrom(managerId, {})

\* canManage(managerId, userId): an active row from the manager to the user
\* (.limit(1).single() yields a row when there is one or more), else the
\* search of getAllReports, which must return for canManage to return
canManage(managerId, userId) ==
    LET direct == {r \in ActiveRows :
                      r.manager_id = managerId /\ r.manages_user_id = userId}
        allReports == getAllReports(managerId)
    IN IF direct # {} THEN [returns |-> TRUE, value |-> TRUE]
       ELSE IF ~allReports.returns THEN [returns |-> FALSE, value |-> FALSE]
       ELSE [returns |-> TRUE, value |-> userId \in Range(allReports.reportUsers)]

\* getManagementChain: every list the loop can return (the row picked by
\* order('level').limit(1) is any row of the lowest level)
RECURSIVE ChainsFrom(_, _, _)
ChainsFrom(currentUserId, chain, visited) ==
    IF currentUserId \in visited THEN {chain}
    ELSE LET rows == {r \in ActiveRows : r.manages_user_id = currentUserId}
         IN IF rows = {} THEN {chain}
            ELSE LET lowest == Min({r.level : r \in rows})
                 IN UNION {
                      IF users[r.manager_id].active /\ r.manager_id \notin Range(chain)
                      THEN ChainsFrom(r.manager_id, Append(chain, r.manager_id),
                                      visited \cup {currentUserId})
                      ELSE {chain}
                      : r \in {x \in rows : x.level = lowest}}

getManagementChain(userId) == ChainsFrom(userId, <<>>, {})

\* findIndex(...) + 1, or 0 when absent
IndexOf(chain, id) ==
    IF id \in Range(chain) THEN Min({i \in 1..Len(chain) : chain[i] = id}) ELSE 0

\* calculateManagementLevel: every level the call can return
calculateManagementLevel(managerId, managesUserId) ==
    LET direct == {r \in ActiveRows :
                      r.manager_id = managerId /\ r.manages_user_id = managesUserId}
    IN IF CountRows(direct, hierarchy) = 1 THEN {1}
       ELSE {IF IndexOf(chain, managerId) >= 1 THEN IndexOf(chain, managerId) ELSE 1 :
                chain \in getManagementChain(managesUserId)}

(***************************************************************************)
(* HierarchyService: mutations                                             *)
(***************************************************************************)
\* UNIQUE(manager_id, manages_user_id, team_id, scope): NULLs are distinct
UniqueViolation(row) ==
    /\ row.team_id # NULL
    /\ \E r \in DOMAIN hierarchy :
          /\ r.manager_id = row.manager_id
          /\ r.manages_user_id = row.manages_user_id
          /\ r.team_id = row.team_id
          /\ r.scope = row.scope

NewEdge(managerId, managesUserId, teamId, scope, level) ==
    [organization_id |-> users[managerId].organization_id,
     manager_id |-> managerId,
     manages_user_id |-> managesUserId,
     team_id |-> teamId,
     scope |-> scope,
     level |-> level,
     active |-> TRUE,
     ended |-> FALSE]

\* an assignManager without the self-management test
AssignCheckWithoutSelf(managerId, managesUserId, teamId, scope) ==
    IF ~UserFound(managerId) \/ ~UserFound(managesUserId) THEN "not_found"
    ELSE IF users[managerId].organization_id # users[managesUserId].organization_id
         THEN "cross_org"
    ELSE IF CountRows({r \in ActiveRows :
                          /\ r.manager_id = managerId
                          /\ r.manages_user_id = managesUserId
                          /\ EqTeam(r, teamId)
                          /\ r.scope = scope}, hierarchy) = 1
         THEN "exists"
    ELSE "ok"

\* the error assignManager throws before it inserts, or "ok":
\*   "self"       'User cannot manage themselves'
\*   "not_found"  'Manager or managed user not found'
\*   "cross_org"  'Manager and user must be in the same organization'
\*   "exists"     'Management relationship already exists'
AssignCheck(managerId, managesUserId, teamId, scope) ==
    IF managerId = managesUserId THEN "self"
    ELSE IF ~UserFound(managerId) \/ ~UserFound(managesUserId) THEN "not_found"
    ELSE IF users[managerId].organization_id # users[managesUserId].organization_id
         THEN "cross_org"
    ELSE IF CountRows({r \in ActiveRows :
                          /\ r.manager_id = managerId
                          /\ r.manages_user_id = managesUserId
                          /\ EqTeam(r, teamId)
                          /\ r.scope = scope}, hierarchy) = 1
         THEN "exists"
    ELSE "ok"

assignManager(managerId, managesUserId, teamId, scope) ==
    /\ UNCHANGED <<users, permissionVars, mergeVars, callVars>>
    /\ IF AssignCheck(managerId, managesUserId, teamId, scope) # "ok"
       THEN /\ outcome' = AssignCheck(managerId, managesUserId, teamId, scope)
            /\ UNCHANGED hierarchy
       ELSE \E level \in calculateManagementLevel(managerId, managesUserId) :
              LET row == NewEdge(managerId, managesUserId, teamId, scope, level)
              IN IF UniqueViolation(row)
                 THEN /\ outcome' = "insert_failed"
                      /\ UNCHANGED hierarchy
                 ELSE /\ hierarchy' = hierarchy (+) SetToBag({row})
                      /\ outcome' = "ok"

EndEdge(r, managerId, managesUserId, teamId) ==
    IF /\ r.manager_id = managerId
       /\ r.manages_user_id = managesUserId
       /\ EqTeam(r, teamId)
       /\ r.active
    THEN [r EXCEPT !.active = FALSE, !.ended = TRUE]
    ELSE r

\* the table after the UPDATE: every row replaced by its EndEdge
EndEdges(managerId, managesUserId, teamId) ==
    LET ended(r) == EndEdge(r, managerId, managesUserId, teamId)
    IN [x \in {ended(r) : r \in DOMAIN hierarchy} |->
           SumCopies({r \in DOMAIN hierarchy : ended(r) = x}, hierarchy)]

removeManager(managerId, managesUserId, teamId) ==
    /\ UNCHANGED <<users, permissionVars, mergeVars, callVars>>
    /\ hierarchy' = EndEdges(managerId, managesUserId, teamId)
    \* without a team the filter is team_id = null: it matches no row, and the
    \* database either reports nothing or rejects the literal
    /\ outcome' \in (IF teamId = NULL THEN {"ok", "remove_failed"} ELSE {"ok"})

(***************************************************************************)
(* HierarchyService: assignManager as the steps of a concurrent call       *)
(***************************************************************************)
\* the caller's position after assignManager has returned or thrown
Assigned(call, result) ==
    [pc |-> "done", managerId |-> call.managerId, managesUserId |-> call.managesUserId,
     teamId |-> call.teamId, scope |-> call.scope, result |-> result]

\* lines 79-109: the tests on the arguments, the two users and the query for
\* an existing active edge
assignManagerCheck(caller, managerId, managesUserId, teamId, scope) ==
    LET call == [pc |-> "checked", managerId |-> managerId, managesUserId |-> managesUserId,
                 teamId |-> teamId, scope |-> scope]
        check == AssignCheck(managerId, managesUserId, teamId, scope)
    IN /\ UNCHANGED <<users, hierarchyVars, permissionVars, mergeVars>>
       /\ IF check # "ok"
          THEN /\ outcome' = check
               /\ inflight' = [inflight EXCEPT ![caller] = Assigned(call, check)]
          ELSE /\ UNCHANGED outcome
               /\ inflight' = [inflight EXCEPT ![caller] = call]

\* line 112: calculateManagementLevel
assignManagerLevel(caller) ==
    LET call == inflight[caller]
    IN /\ \E level \in calculateManagementLevel(call.managerId, call.managesUserId) :
             inflight' = [inflight EXCEPT ![caller] =
                             [pc |-> "levelled", managerId |-> call.managerId,
                              managesUserId |-> call.managesUserId, teamId |-> call.teamId,
                              scope |-> call.scope, level |-> level]]
       /\ UNCHANGED <<users, outcome, hierarchyVars, permissionVars, mergeVars>>

\* lines 114-133: the insert, rejected by the table's UNIQUE constraint or done
assignManagerInsert(caller) ==
    LET call == inflight[caller]
        row == NewEdge(call.managerId, call.managesUserId, call.teamId, call.scope, call.level)
    IN /\ UNCHANGED <<users, permissionVars, mergeVars>>
       /\ IF UniqueViolation(row)
          THEN /\ outcome' = "insert_failed"
               /\ inflight' = [inflight EXCEPT ![caller] = Assigned(call, "insert_failed")]
               /\ UNCHANGED hierarchy
          ELSE /\ hierarchy' = hierarchy (+) SetToBag({row})
               /\ outcome' = "ok"
               /\ inflight' = [inflight EXCEPT ![caller] = Assigned(call, "ok")]

(***************************************************************************)
(* HierarchyService: getManagementChain as the iterations of its loop      *)
(***************************************************************************)
\* the rows the query of one iteration can yield: the active rows managing
\* the user that have the lowest level
ManagerRows(currentUserId) ==
    LET rows == {r \in ActiveRows : r.manages_user_id = currentUserId}
    IN {r \in rows : \A x \in rows : r.level <= x.level}

\* lines 255-257: the empty chain and visited set
getManagementChainStart(caller, userId) ==
    /\ inflight' = [inflight EXCEPT ![caller] =
                       [pc |-> "walking", userId |-> userId, currentUserId |-> userId,
                        chain |-> <<>>, visited |-> {}]]
    /\ UNCHANGED <<users, outcome, hierarchyVars, permissionVars, mergeVars>>

\* the position of a caller whose loop has ended: line 288, return chain
ChainReturned(walk) == [pc |-> "done", userId |-> walk.userId, chain |-> walk.chain]

\* an iteration that appends the manager without looking for it in the chain
getManagementChainStepWithoutFind(caller) ==
    LET walk == inflight[caller]
    IN /\ UNCHANGED <<users, outcome, hierarchyVars, permissionVars, mergeVars>>
       /\ IF walk.currentUserId \in walk.visited \/ ManagerRows(walk.currentUserId) = {}
          THEN inflight' = [inflight EXCEPT ![caller] = ChainReturned(walk)]
          ELSE \E r \in ManagerRows(walk.currentUserId) :
                 IF users[r.manager_id].active
                 THEN inflight' = [inflight EXCEPT ![caller] =
                                     [walk EXCEPT
                                         !.visited = @ \cup {walk.currentUserId},
                                         !.chain = Append(@, r.manager_id),
                                         !.currentUserId = r.manager_id]]
                 ELSE inflight' = [inflight EXCEPT ![caller] = ChainReturned(walk)]

\* lines 259-285: the test of the while loop and one iteration of its body
getManagementChainStep(caller) ==
    LET walk == inflight[caller]
    IN /\ UNCHANGED <<users, outcome, hierarchyVars, permissionVars, mergeVars>>
       /\ IF walk.currentUserId \in walk.visited \/ ManagerRows(walk.currentUserId) = {}
          THEN inflight' = [inflight EXCEPT ![caller] = ChainReturned(walk)]
          ELSE \E r \in ManagerRows(walk.currentUserId) :
                 IF users[r.manager_id].active /\ r.manager_id \notin Range(walk.chain)
                 THEN inflight' = [inflight EXCEPT ![caller] =
                                     [walk EXCEPT
                                         !.visited = @ \cup {walk.currentUserId},
                                         !.chain = Append(@, r.manager_id),
                                         !.currentUserId = r.manager_id]]
                 ELSE inflight' = [inflight EXCEPT ![caller] = ChainReturned(walk)]

(***************************************************************************)
(* PermissionService: documents                                            *)
(*                                                                         *)
(* A JSON permission document is held as the map from the paths of its     *)
(* boolean leaves to their values: {tasks: {create: true}} is              *)
(* (<<"tasks", "create">> :> TRUE).  A nullable jsonb column holds <<>>    *)
(* for NULL and <<document>> otherwise.                                    *)
(***************************************************************************)
DEFAULT_ROLE_PERMISSIONS ==
    [super_admin |->
        [tasks |-> [view_own |-> TRUE, view_team |-> TRUE, create |-> TRUE, edit_own |-> TRUE,
                    edit_team |-> TRUE, delete_own |-> TRUE, approve |-> TRUE],
         timesheet |-> [view_own |-> TRUE, view_team |-> TRUE, edit_own |-> TRUE, approve_team |-> TRUE],
         leaves |-> [view_own |-> TRUE, view_team |-> TRUE, request |-> TRUE, approve_team |-> TRUE],
         resources |-> [view |-> TRUE, book |-> TRUE, allocate |-> TRUE, manage |-> TRUE],
         analytics |-> [view_own |-> TRUE, view_team |-> TRUE, view_org |-> TRUE],
         members |-> [view |-> TRUE, add |-> TRUE, edit |-> TRUE, remove |-> TRUE]],
     org_admin |->
        [tasks |-> [view_own |-> TRUE, view_team |-> TRUE, create |-> TRUE, edit_own |-> TRUE,
                    edit_team |-> TRUE, delete_own |-> TRUE, approve |-> TRUE],
         timesheet |-> [view_own |-> TRUE, view_team |-> TRUE, edit_own |-> TRUE, approve_team |-> TRUE],
         leaves |-> [view_own |-> TRUE, view_team |-> TRUE, request |-> TRUE, approve_team |-> TRUE],
         resources |-> [view |-> TRUE, book |-> TRUE, allocate |-> TRUE, manage |-> TRUE],
         analytics |-> [view_own |-> TRUE, view_team |-> TRUE, view_org |-> TRUE],
         members |-> [view |-> TRUE, add |-> TRUE, edit |-> TRUE, remove |-> TRUE]],
     senior_manager |->
        [tasks |-> [view_own |-> TRUE, view_team |-> TRUE, create |-> TRUE, edit_own |-> TRUE,
                    edit_team |-> TRUE, delete_own |-> FALSE, approve |-> TRUE],
         timesheet |-> [view_own |-> TRUE, view_team |-> TRUE, edit_own |-> TRUE, approve_team |-> TRUE],
         leaves |-> [view_own |-> TRUE, view_team |-> TRUE, request |-> TRUE, approve_team |-> TRUE],
         resources |-> [view |-> TRUE, book |-> TRUE, allocate |-> TRUE, manage |-> FALSE],
         analytics |-> [view_own |-> TRUE, view_team |-> TRUE, view_org |-> FALSE],
         members |-> [view |-> TRUE, add |-> TRUE, edit |-> TRUE, remove |-> FALSE]],
     manager |->
        [tasks |-> [view_own |-> TRUE, view_team |-> TRUE, create |-> TRUE, edit_own |-> TRUE,
                    edit_team |-> TRUE, delete_own |-> FALSE, approve |-> TRUE],
         timesheet |-> [view_own |-> TRUE, view_team |-> TRUE, edit_own |-> TRUE, approve_team |-> TRUE],
         leaves |-> [view_own |-> TRUE, view_team |-> TRUE, request |-> TRUE, approve_team |-> TRUE],
         resources |-> [view |-> TRUE, book |-> TRUE, allocate |-> TRUE, manage |-> FALSE],
         analytics |-> [view_own |-> TRUE, view_team |-> TRUE, view_org |-> FALSE],
         members |-> [view |-> TRUE, add |-> FALSE, edit |-> FALSE, remove |-> FALSE]],
     lead |->
        [tasks |-> [view_own |-> TRUE, view_team |-> TRUE, create |-> TRUE, edit_own |-> TRUE,
                    edit_team |-> FALSE, delete_own |-> FALSE, approve |-> FALSE],
         timesheet |-> [view_own |-> TRUE, view_team |-> TRUE, edit_own |-> TRUE, approve_team |-> FALSE],
         leaves |-> [view_own |-> TRUE, view_team |-> TRUE, request |-> TRUE, approve_team |-> FALSE],
         resources |-> [view |-> TRUE, book |-> TRUE, allocate |-> FALSE, manage |-> FALSE],
         analytics |-> [view_own |-> TRUE, view_team |-> FALSE, view_org |-> FALSE],
         members |-> [view |-> TRUE, add |-> FALSE, edit |-> FALSE, remove |-> FALSE]],
     member |->
        [tasks |-> [view_own |-> TRUE, view_team |-> FALSE, create |-> TRUE, edit_own |-> TRUE,
                    edit_team |-> FALSE, delete_own |-> FALSE, approve |-> FALSE],
         timesheet |-> [view_own |-> TRUE, view_team |-> FALSE, edit_own |-> TRUE, approve_team |-> FALSE],
         leaves |-> [view_own |-> TRUE, view_team |-> FALSE, request |-> TRUE, approve_team |-> FALSE],
         resources |-> [view |-> TRUE, book |-> TRUE, allocate |-> FALSE, manage |-> FALSE],
         analytics |-> [view_own |-> TRUE, view_team |-> FALSE, view_org |-> FALSE],
         members |-> [view |-> TRUE, add |-> FALSE, edit |-> FALSE, remove |-> FALSE]]]

\* the document of a two-level object literal
Document(object) ==
    [p \in UNION {{<<c, a>> : a \in DOMAIN object[c]} : c \in DOMAIN object} |->
        object[p[1]][p[2]]]

\* the documents of the role table
RoleDocuments ==
    [role \in DOMAIN DEFAULT_ROLE_PERMISSIONS |-> Document(DEFAULT_ROLE_PERMISSIONS[role])]

\* DEFAULT_ROLE_PERMISSIONS is an object literal: besides its six own keys,
\* a property access finds what every object inherits (a function, or the
\* prototype object), a truthy value that holds no boolean leaf
InheritedKeys == {"constructor", "toString", "__proto__"}

\* DEFAULT_ROLE_PERMISSIONS[user.role] || DEFAULT_ROLE_PERMISSIONS.member
RoleDefault(role) ==
    IF role \in DOMAIN RoleDocuments THEN RoleDocuments[role]
    ELSE IF role \in InheritedKeys THEN <<>>
    ELSE RoleDocuments.member

\* table permission_templates
TemplateStore ==
    [TPL1 |-> [organization_id |-> NULL,
               permissions |-> Document([resources |-> [manage |-> TRUE]])],
     TPL2 |-> [organization_id |-> "O1",
               permissions |-> Document([tasks |-> [create |-> TRUE, view_team |-> TRUE],
                                         resources |-> [manage |-> FALSE]])]]
UnknownTemplate == "TPL9"
TemplateInputs == DOMAIN TemplateStore \cup {UnknownTemplate}

\* getTemplate(templateId) !== null
TemplateFound(templateId) == templateId \in DOMAIN TemplateStore

IsPrefix(q, p) == Len(q) <= Len(p) /\ SubSeq(p, 1, Len(q)) = q

\* typeof value === 'object' for the value at path `prefix` of doc: the root
\* and every inner node are objects, a leaf is a boolean
IsObjectAt(doc, prefix) == prefix \notin DOMAIN doc

\* part in (the object at prefix)
HasKeyAt(doc, prefix, part) ==
    \E q \in DOMAIN doc : IsPrefix(Append(prefix, part), q)

\* a mergePermissions that assigns the override's category instead of
\* spreading it over the base's
mergePermissionsReplacing(base, override) ==
    LET objects == {q[1] : q \in {p \in DOMAIN override : Len(p) >= 2}}
        kept == {p \in DOMAIN base : p[1] \notin objects}
        taken == {p \in DOMAIN override : Len(p) >= 2}
    IN [p \in kept \cup taken |-> IF p \in taken THEN override[p] ELSE base[p]]

\* a mergePermissions in which an override leaf changes the base's leaf
\* instead of replacing it (true flips the base's value)
mergePermissionsToggling(base, override) ==
    LET objects == {q[1] : q \in {p \in DOMAIN override : Len(p) >= 2}}
        keys(c) == {q[2] : q \in {p \in DOMAIN override : Len(p) >= 2 /\ p[1] = c}}
        kept == {p \in DOMAIN base :
                    ~(p[1] \in objects /\ (Len(p) = 1 \/ p[2] \in keys(p[1])))}
        taken == {p \in DOMAIN override : Len(p) >= 2}
    IN [p \in kept \cup taken |->
           IF p \in taken
           THEN IF p \in DOMAIN base THEN base[p] # override[p] ELSE override[p]
           ELSE base[p]]

\* mergePermissions(base, override): for each category of override whose value
\* is an object, merged[category] = {...merged[category], ...perms}
mergePermissions(base, override) ==
    LET objects == {q[1] : q \in {p \in DOMAIN override : Len(p) >= 2}}
        keys(c) == {q[2] : q \in {p \in DOMAIN override : Len(p) >= 2 /\ p[1] = c}}
        kept == {p \in DOMAIN base :
                    ~(p[1] \in objects /\ (Len(p) = 1 \/ p[2] \in keys(p[1])))}
        taken == {p \in DOMAIN override : Len(p) >= 2}
    IN [p \in kept \cup taken |-> IF p \in taken THEN override[p] ELSE base[p]]

\* the path walk of updateCustomPermission: customPerms with the leaf at
\* parts set to value (a boolean met on the way is replaced by an object,
\* whatever was at parts is replaced by the value)
SetPath(customPerms, parts, value) ==
    LET kept == {q \in DOMAIN customPerms : ~IsPrefix(q, parts) /\ ~IsPrefix(parts, q)}
    IN [q \in kept \cup {parts} |-> IF q = parts THEN value ELSE customPerms[q]]

(***************************************************************************)
(* PermissionService: queries                                              *)
(***************************************************************************)
EmptyDocument == <<>>           \* the object {}

Context(orgId, teamId) == [orgId |-> orgId, teamId |-> teamId]
ContextInputs == {Context(o, t) : o \in {NULL, "O1"}, t \in {NULL, "T1"}}

\* a query without the filter on user_id
MatchingRowsOfAnyUser(userId, context) ==
    {i \in 1..Len(assignments) :
        /\ (context.orgId # NULL => assignments[i].organization_id = context.orgId)
        /\ (context.teamId # NULL => assignments[i].team_id = context.teamId)}

\* from('user_permissions').eq('user_id', userId), with .eq('organization_id')
\* and .eq('team_id') added only for the fields the context carries
MatchingRows(userId, context) ==
    {i \in 1..Len(assignments) :
        /\ assignments[i].user_id = userId
        /\ (context.orgId # NULL => assignments[i].organization_id = context.orgId)
        /\ (context.teamId # NULL => assignments[i].team_id = context.teamId)}

\* .single(): the row when exactly one row matches, else null (0)
Single(rows) == IF Cardinality(rows) = 1 THEN CHOOSE i \in rows : TRUE ELSE 0

\* .order('updated_at', {ascending: false}).limit(1)
Latest(rows) == CHOOSE i \in rows : \A j \in rows : j <= i

\* UPDATE of row i: the row gets the newest updated_at
MoveToEnd(rows, i, row) ==
    Append(SelectSeq([k \in 1..Len(rows) |-> <<k, rows[k]>>],
                     LAMBDA kr : kr[1] # i), <<i, row>>)

StoreUpdate(i, row) ==
    LET moved == MoveToEnd(assignments, i, row)
    IN [k \in 1..Len(moved) |-> moved[k][2]]

\* getEffectivePermissions, lines 299-313: the document computed when the row
\* carries no effective_permissions
RecomputedPermissions(userPerm, rolePermissions) ==
    LET withTemplate ==
            IF userPerm.template_id # NULL /\ TemplateFound(userPerm.template_id)
            THEN mergePermissions(rolePermissions,
                                  TemplateStore[userPerm.template_id].permissions)
            ELSE rolePermissions
    IN IF userPerm.custom_permissions # <<>>
       THEN mergePermissions(withTemplate, userPerm.custom_permissions[1])
       ELSE withTemplate

\* getEffectivePermissions(userId, context): whether it throws, the document it
\* returns, and the row (0: none) it writes the recomputed document to
getEffectivePermissions(userId, context) ==
    IF ~UserFound(userId)
    THEN [throws |-> TRUE, permissions |-> EmptyDocument, writes |-> 0]
    ELSE LET rolePermissions == RoleDefault(users[userId].role)
             userPerms == MatchingRows(userId, context)
         IN IF userPerms = {}
            THEN [throws |-> FALSE, permissions |-> rolePermissions, writes |-> 0]
            ELSE LET userPerm == assignments[Latest(userPerms)]
                 IN IF userPerm.effective_permissions # <<>>
                    THEN [throws |-> FALSE,
                          permissions |-> userPerm.effective_permissions[1],
                          writes |-> 0]
                    ELSE [throws |-> FALSE,
                          permissions |-> RecomputedPermissions(userPerm, rolePermissions),
                          writes |-> Latest(userPerms)]

\* a walk that ends with a truthiness test instead of === true
RECURSIVE WalkPartsTruthy(_, _, _, _)
WalkPartsTruthy(effective, parts, i, prefix) ==
    IF i > Len(parts)
    THEN prefix \notin DOMAIN effective \/ effective[prefix] = TRUE
    ELSE IF IsObjectAt(effective, prefix) /\ HasKeyAt(effective, prefix, parts[i])
         THEN WalkPartsTruthy(effective, parts, i + 1, Append(prefix, parts[i]))
         ELSE FALSE

\* the loop of checkPermission over the parts of the path
RECURSIVE WalkParts(_, _, _, _)
WalkParts(effective, parts, i, prefix) ==
    IF i > Len(parts)
    THEN prefix \in DOMAIN effective /\ effective[prefix] = TRUE
    ELSE IF IsObjectAt(effective, prefix) /\ HasKeyAt(effective, prefix, parts[i])
         THEN WalkParts(effective, parts, i + 1, Append(prefix, parts[i]))
         ELSE FALSE

\* checkPermission(userId, permission, context), permission given as its parts
checkPermission(userId, parts, context) ==
    LET effective == getEffectivePermissions(userId, context)
    IN IF effective.throws
       THEN [throws |-> TRUE, granted |-> FALSE]
       ELSE [throws |-> FALSE, granted |-> WalkParts(effective.permissions, parts, 1, <<>>)]

(***************************************************************************)
(* PermissionService: calls                                                *)
(***************************************************************************)
\* UNIQUE(user_id, organization_id, team_id): NULLs are distinct
AssignmentUniqueViolation(row) ==
    /\ row.organization_id # NULL
    /\ row.team_id # NULL
    /\ \E i \in 1..Len(assignments) :
          /\ assignments[i].user_id = row.user_id
          /\ assignments[i].organization_id = row.organization_id
          /\ assignments[i].team_id = row.team_id

GetEffectivePermissionsCall(userId, context) ==
    LET result == getEffectivePermissions(userId, context)
    IN /\ outcome' = IF result.throws THEN "user_not_found" ELSE "ok"
       /\ assignments' =
            IF result.writes = 0 THEN assignments
            ELSE StoreUpdate(result.writes,
                     [assignments[result.writes] EXCEPT
                         !.effective_permissions = <<result.permissions>>])
       /\ UNCHANGED <<users, calls, hierarchyVars, mergeVars, callVars>>

CheckPermissionCall(userId, parts, context) ==
    GetEffectivePermissionsCall(userId, context)

\* an updateCustomPermission that stores the override before it looks the
\* user up
updateCustomPermissionWritingFirst(userId, parts, value, context) ==
    LET existing == Single(MatchingRows(userId, context))
        stored == IF existing # 0 /\ assignments[existing].custom_permissions # <<>>
                  THEN assignments[existing].custom_permissions[1]
                  ELSE EmptyDocument
        customPerms == SetPath(stored, parts, value)
    IN /\ calls' = calls + 1
       /\ UNCHANGED <<users, hierarchyVars, mergeVars, callVars>>
       /\ IF ~UserFound(userId)
          THEN /\ outcome' = "user_not_found"
               /\ assignments' =
                    Append(assignments,
                           [id |-> Len(assignments) + 1,
                            user_id |-> userId,
                            organization_id |-> context.orgId,
                            team_id |-> context.teamId,
                            source |-> "custom",
                            template_id |-> NULL,
                            custom_permissions |-> <<customPerms>>,
                            effective_permissions |-> <<>>])
          ELSE LET rolePermissions == RoleDefault(users[userId].role)
                   withTemplate ==
                       IF /\ existing # 0
                          /\ assignments[existing].template_id # NULL
                          /\ TemplateFound(assignments[existing].template_id)
                       THEN mergePermissions(rolePermissions,
                                TemplateStore[assignments[existing].template_id].permissions)
                       ELSE rolePermissions
                   effective == mergePermissions(withTemplate, customPerms)
                   created == [id |-> Len(assignments) + 1,
                               user_id |-> userId,
                               organization_id |-> context.orgId,
                               team_id |-> context.teamId,
                               source |-> "custom",
                               template_id |-> NULL,
                               custom_permissions |-> <<customPerms>>,
                               effective_permissions |-> <<effective>>]
               IN /\ outcome' = "ok"
                  /\ assignments' =
                       IF existing # 0
                       THEN StoreUpdate(existing,
                                [assignments[existing] EXCEPT
                                    !.custom_permissions = <<customPerms>>,
                                    !.effective_permissions = <<effective>>,
                                    !.source = "custom"])
                       ELSE IF AssignmentUniqueViolation(created) THEN assignments
                       ELSE Append(assignments, created)

updateCustomPermission(userId, parts, value, context) ==
    LET existing == Single(MatchingRows(userId, context))
        stored == IF existing # 0 /\ assignments[existing].custom_permissions # <<>>
                  THEN assignments[existing].custom_permissions[1]
                  ELSE EmptyDocument
        customPerms == SetPath(stored, parts, value)
    IN /\ calls' = calls + 1
       /\ UNCHANGED <<users, hierarchyVars, mergeVars, callVars>>
       /\ IF ~UserFound(userId)
          THEN outcome' = "user_not_found" /\ UNCHANGED assignments
          ELSE LET rolePermissions == RoleDefault(users[userId].role)
                   withTemplate ==
                       IF /\ existing # 0
                          /\ assignments[existing].template_id # NULL
                          /\ TemplateFound(assignments[existing].template_id)
                       THEN mergePermissions(rolePermissions,
                                TemplateStore[assignments[existing].template_id].permissions)
                       ELSE rolePermissions
                   effective == mergePermissions(withTemplate, customPerms)
                   created == [id |-> Len(assignments) + 1,
                               user_id |-> userId,
                               organization_id |-> context.orgId,
                               team_id |-> context.teamId,
                               source |-> "custom",
                               template_id |-> NULL,
                               custom_permissions |-> <<customPerms>>,
                               effective_permissions |-> <<effective>>]
               IN /\ outcome' = "ok"
                  /\ assignments' =
                       IF existing # 0
                       THEN StoreUpdate(existing,
                                [assignments[existing] EXCEPT
                                    !.custom_permissions = <<customPerms>>,
                                    !.effective_permissions = <<effective>>,
                                    !.source = "custom"])
                       ELSE IF AssignmentUniqueViolation(created) THEN assignments
                       ELSE Append(assignments, created)

grantPermission(userId, parts, context) ==
    updateCustomPermission(userId, parts, TRUE, context)

revokePermission(userId, parts, context) ==
    updateCustomPermission(userId, parts, FALSE, context)

\* an applyTemplate that stores the template reference without the effective
\* document
applyTemplateWithoutCache(userId, templateId, context) ==
    LET existing == Single(MatchingRows(userId, context))
    IN /\ calls' = calls + 1
       /\ UNCHANGED <<users, hierarchyVars, mergeVars, callVars>>
       /\ IF ~TemplateFound(templateId) \/ ~UserFound(userId)
          THEN /\ outcome' = IF ~TemplateFound(templateId) THEN "template_not_found"
                                                          ELSE "user_not_found"
               /\ UNCHANGED assignments
          ELSE LET rolePermissions == RoleDefault(users[userId].role)
                   effective == mergePermissions(rolePermissions,
                                                 TemplateStore[templateId].permissions)
                   created == [id |-> Len(assignments) + 1,
                               user_id |-> userId,
                               organization_id |-> context.orgId,
                               team_id |-> context.teamId,
                               source |-> "template",
                               template_id |-> templateId,
                               custom_permissions |-> <<>>,
                               effective_permissions |-> <<>>]
               IN IF existing # 0
                  THEN /\ outcome' = "ok"
                       /\ assignments' =
                            StoreUpdate(existing,
                                [assignments[existing] EXCEPT
                                    !.template_id = templateId,
                                    !.source = "template",
                                    !.effective_permissions = <<>>])
                  ELSE IF AssignmentUniqueViolation(created)
                       THEN outcome' = "apply_failed" /\ UNCHANGED assignments
                       ELSE /\ outcome' = "ok"
                            /\ assignments' = Append(assignments, created)

applyTemplate(userId, templateId, context) ==
    LET existing == Single(MatchingRows(userId, context))
    IN /\ calls' = calls + 1
       /\ UNCHANGED <<users, hierarchyVars, mergeVars, callVars>>
       /\ IF ~TemplateFound(templateId) \/ ~UserFound(userId)
          THEN /\ outcome' = IF ~TemplateFound(templateId) THEN "template_not_found"
                                                          ELSE "user_not_found"
               /\ UNCHANGED assignments
          ELSE LET rolePermissions == RoleDefault(users[userId].role)
                   effective == mergePermissions(rolePermissions,
                                                 TemplateStore[templateId].permissions)
                   created == [id |-> Len(assignments) + 1,
                               user_id |-> userId,
                               organization_id |-> context.orgId,
                               team_id |-> context.teamId,
                               source |-> "template",
                               template_id |-> templateId,
                               custom_permissions |-> <<>>,
                               effective_permissions |-> <<effective>>]
               IN IF existing # 0
                  THEN /\ outcome' = "ok"
                       /\ assignments' =
                            StoreUpdate(existing,
                                [assignments[existing] EXCEPT
                                    !.template_id = templateId,
                                    !.source = "template",
                                    !.effective_permissions = <<effective>>])
                  ELSE IF AssignmentUniqueViolation(created)
                       THEN outcome' = "apply_failed" /\ UNCHANGED assignments
                       ELSE /\ outcome' = "ok"
                            /\ assignments' = Append(assignments, created)

(***************************************************************************)
(* PermissionService: updateCustomPermission as the steps of a concurrent  *)
(* call                                                                    *)
(***************************************************************************)
\* the position of the row with the given id
RowById(id) == CHOOSE i \in 1..Len(assignments) : assignments[i].id = id

\* lines 576-585: the query for the existing row; the caller keeps what it read
updateCustomPermissionRead(caller, userId, parts, value, context) ==
    LET existing == Single(MatchingRows(userId, context))
    IN /\ inflight' = [inflight EXCEPT ![caller] =
                          [pc |-> "read",
                           userId |-> userId,
                           parts |-> parts,
                           value |-> value,
                           context |-> context,
                           existing |-> IF existing = 0 THEN <<>>
                                        ELSE <<assignments[existing]>>]]
       /\ UNCHANGED <<users, outcome, hierarchyVars, permissionVars, mergeVars>>

\* the caller's position after its call has returned or thrown
Returned(call, result, at) ==
    [pc |-> "done", userId |-> call.userId, parts |-> call.parts, value |-> call.value,
     context |-> call.context, existing |-> call.existing, result |-> result, at |-> at]

\* a write that sets the leaf in the overrides the row holds at the time of
\* the write
updateCustomPermissionWriteOntoStored(caller) ==
    LET call == inflight[caller]
        existing == call.existing
        current == IF existing # <<>> THEN <<assignments[RowById(existing[1].id)]>> ELSE <<>>
        stored == IF current # <<>> /\ current[1].custom_permissions # <<>>
                  THEN current[1].custom_permissions[1]
                  ELSE EmptyDocument
        customPerms == SetPath(stored, call.parts, call.value)
    IN /\ calls' = calls + 1
       /\ UNCHANGED <<users, hierarchyVars, mergeVars>>
       /\ IF ~UserFound(call.userId)
          THEN /\ outcome' = "user_not_found"
               /\ inflight' = [inflight EXCEPT ![caller] =
                                  Returned(call, "user_not_found", calls')]
               /\ UNCHANGED assignments
          ELSE LET rolePermissions == RoleDefault(users[call.userId].role)
                   withTemplate ==
                       IF /\ existing # <<>>
                          /\ existing[1].template_id # NULL
                          /\ TemplateFound(existing[1].template_id)
                       THEN mergePermissions(rolePermissions,
                                TemplateStore[existing[1].template_id].permissions)
                       ELSE rolePermissions
                   effective == mergePermissions(withTemplate, customPerms)
                   created == [id |-> Len(assignments) + 1,
                               user_id |-> call.userId,
                               organization_id |-> call.context.orgId,
                               team_id |-> call.context.teamId,
                               source |-> "custom",
                               template_id |-> NULL,
                               custom_permissions |-> <<customPerms>>,
                               effective_permissions |-> <<effective>>]
               IN /\ outcome' = "ok"
                  /\ inflight' = [inflight EXCEPT ![caller] = Returned(call, "ok", calls')]
                  /\ assignments' =
                       IF existing # <<>>
                       THEN StoreUpdate(RowById(existing[1].id),
                                [assignments[RowById(existing[1].id)] EXCEPT
                                    !.custom_permissions = <<customPerms>>,
                                    !.effective_permissions = <<effective>>,
                                    !.source = "custom"])
                       ELSE IF AssignmentUniqueViolation(created) THEN assignments
                       ELSE Append(assignments, created)

\* lines 587-639: the nested structure is built in the overrides that were
\* read, the effective document is recomputed from them, and the row that was
\* read is updated by its id, or a row is inserted when none was read
updateCustomPermissionWrite(caller) ==
    LET call == inflight[caller]
        existing == call.existing
        stored == IF existing # <<>> /\ existing[1].custom_permissions # <<>>
                  THEN existing[1].custom_permissions[1]
                  ELSE EmptyDocument
        customPerms == SetPath(stored, call.parts, call.value)
    IN /\ calls' = calls + 1
       /\ UNCHANGED <<users, hierarchyVars, mergeVars>>
       /\ IF ~UserFound(call.userId)
          THEN /\ outcome' = "user_not_found"
               /\ inflight' = [inflight EXCEPT ![caller] =
                                  Returned(call, "user_not_found", calls')]
               /\ UNCHANGED assignments
          ELSE LET rolePermissions == RoleDefault(users[call.userId].role)
                   withTemplate ==
                       IF /\ existing # <<>>
                          /\ existing[1].template_id # NULL
                          /\ TemplateFound(existing[1].template_id)
                       THEN mergePermissions(rolePermissions,
                                TemplateStore[existing[1].template_id].permissions)
                       ELSE rolePermissions
                   effective == mergePermissions(withTemplate, customPerms)
                   created == [id |-> Len(assignments) + 1,
                               user_id |-> call.userId,
                               organization_id |-> call.context.orgId,
                               team_id |-> call.context.teamId,
                               source |-> "custom",
                               template_id |-> NULL,
                               custom_permissions |-> <<customPerms>>,
                               effective_permissions |-> <<effective>>]
               IN /\ outcome' = "ok"
                  /\ inflight' = [inflight EXCEPT ![caller] = Returned(call, "ok", calls')]
                  /\ assignments' =
                       IF existing # <<>>
                       THEN StoreUpdate(RowById(existing[1].id),
                                [assignments[RowById(existing[1].id)] EXCEPT
                                    !.custom_permissions = <<customPerms>>,
                                    !.effective_permissions = <<effective>>,
                                    !.source = "custom"])
                       ELSE IF AssignmentUniqueViolation(created) THEN assignments
                       ELSE Append(assignments, created)

(***************************************************************************)
(* Specification of the hierarchy graph                                    *)
(***************************************************************************)
Init ==
    /\ users = InitialUsers
    /\ hierarchy = EmptyBag
    /\ outcome = "ok"
    /\ assignments = <<>>
    /\ calls = 0
    /\ mergeArgs = <<EmptyDocument, EmptyDocument>>
    /\ mergeResult = <<>>
    /\ inflight = NoCalls

AssignManagerCall ==
    \E m \in ManagerInputs, u \in ManagedInputs, ts \in ScopeInputs :
        /\ assignManager(m, u, ts[1], ts[2])
        /\ BagCardinality(hierarchy') <= MaxEdges

RemoveManagerCall ==
    \E m \in ManagerInputs \cap UserIds, u \in ManagedInputs \cap UserIds, t \in TeamInputs :
        removeManager(m, u, t)

Next ==
    \/ AssignManagerCall
    \/ RemoveManagerCall

Spec == Init /\ [][Next]_vars

(***************************************************************************)
(* Specification of the hierarchy while users are updated: one manager of  *)
(* each organization, two managed users, one of which is updated           *)
(***************************************************************************)
OrgManagers == {"A", "X"}
OrgManaged == {"B", "D"}
UpdatedUsers == {"D", UnknownUser}
\* the data updateUser is called with
UserUpdates ==
    {[organization_id |-> "O2"],
     [id |-> "X", organization_id |-> "O2", active |-> FALSE],
     [active |-> TRUE]}

OrgAssignCall ==
    \E m \in OrgManagers, u \in OrgManaged, ts \in ScopeInputs :
        /\ assignManager(m, u, ts[1], ts[2])
        /\ BagCardinality(hierarchy') <= MaxEdges

OrgRemoveCall ==
    \E m \in OrgManagers, u \in OrgManaged, t \in TeamInputs :
        removeManager(m, u, t)

UpdateUserCall ==
    \E u \in UpdatedUsers, data \in UserUpdates :
        updateUser(u, data)

OrgNext ==
    \/ OrgAssignCall
    \/ OrgRemoveCall
    \/ UpdateUserCall

OrgSpec == Init /\ [][OrgNext]_vars

(***************************************************************************)
(* Specification of the levels of a chain: the managers A, B, D and the    *)
(* managed users B, C of one team                                          *)
(***************************************************************************)
MaxLevelEdges == 4          \* rows in management_hierarchy
LevelManagers == {"A", "B", "D"}
LevelManaged == {"B", "C"}

LevelAssignCall ==
    \E m \in LevelManagers, u \in LevelManaged :
        /\ assignManager(m, u, "T1", "team")
        /\ BagCardinality(hierarchy') <= MaxLevelEdges

LevelRemoveCall ==
    \E m \in LevelManagers, u \in LevelManaged :
        removeManager(m, u, "T1")

LevelNext ==
    \/ LevelAssignCall
    \/ LevelRemoveCall

LevelSpec == Init /\ [][LevelNext]_vars

(***************************************************************************)
(* Specification of calls that fail: mutations for a known and an unknown  *)
(* user, a known and an unknown template, managers of both organizations   *)
(***************************************************************************)
FailUsers == {"A", UnknownUser}
FailContexts == {Context(NULL, NULL), Context("O1", "T1")}
FailTemplates == {"TPL1", UnknownTemplate}
FailManagers == {"A", "X", UnknownUser}
FailManaged == {"A", "B"}

FailGrantCall ==
    \E u \in FailUsers, c \in FailContexts :
        /\ calls < MaxCalls
        /\ grantPermission(u, <<"tasks", "create">>, c)

FailRevokeCall ==
    \E u \in FailUsers, c \in FailContexts :
        /\ calls < MaxCalls
        /\ revokePermission(u, <<"tasks", "create">>, c)

FailApplyCall ==
    \E u \in FailUsers, t \in FailTemplates, c \in FailContexts :
        /\ calls < MaxCalls
        /\ applyTemplate(u, t, c)

FailAssignCall ==
    \E m \in FailManagers, u \in FailManaged :
        /\ assignManager(m, u, "T1", "team")
        /\ BagCardinality(hierarchy') <= MaxEdges

FailNext ==
    \/ FailGrantCall
    \/ FailRevokeCall
    \/ FailApplyCall
    \/ FailAssignCall

FailSpec == Init /\ [][FailNext]_vars

(***************************************************************************)
(* Specification of the permission assignments                             *)
(***************************************************************************)
PermissionUsers == {"A", UnknownUser}      \* users whose permissions are changed
ReadUsers == {"A", "B"}                    \* users whose permissions are read
GrantPaths == {<<"tasks", "create">>, <<"resources", "manage">>}

GrantPermissionCall ==
    \E u \in PermissionUsers, p \in GrantPaths, c \in ContextInputs :
        /\ calls < MaxCalls
        /\ grantPermission(u, p, c)

RevokePermissionCall ==
    \E u \in PermissionUsers, p \in GrantPaths, c \in ContextInputs :
        /\ calls < MaxCalls
        /\ revokePermission(u, p, c)

ApplyTemplateCall ==
    \E u \in PermissionUsers, t \in TemplateInputs, c \in ContextInputs :
        /\ calls < MaxCalls
        /\ applyTemplate(u, t, c)

ReadPermissionsCall ==
    \E u \in ReadUsers, c \in ContextInputs :
        GetEffectivePermissionsCall(u, c)

CheckCall ==
    \E u \in ReadUsers, c \in ContextInputs :
        CheckPermissionCall(u, <<"tasks", "create">>, c)

PermNext ==
    \/ GrantPermissionCall
    \/ RevokePermissionCall
    \/ ApplyTemplateCall
    \/ ReadPermissionsCall
    \/ CheckCall

PermSpec == Init /\ [][PermNext]_vars

(***************************************************************************)
(* Specification of the assignments of one user while the user's role is   *)
(* changed through updateUser                                              *)
(***************************************************************************)
CacheContexts == {Context(NULL, NULL), Context("O1", "T1")}
RoleUpdates == {[role |-> "manager"], [role |-> "member"]}

CacheGrantCall ==
    \E p \in GrantPaths, c \in CacheContexts :
        /\ calls < MaxCalls
        /\ grantPermission("A", p, c)

CacheRevokeCall ==
    \E p \in GrantPaths, c \in CacheContexts :
        /\ calls < MaxCalls
        /\ revokePermission("A", p, c)

CacheApplyCall ==
    \E t \in DOMAIN TemplateStore, c \in CacheContexts :
        /\ calls < MaxCalls
        /\ applyTemplate("A", t, c)

CacheUpdateUserCall ==
    \E data \in RoleUpdates : updateUser("A", data)

CacheReadCall ==
    \E c \in CacheContexts : GetEffectivePermissionsCall("A", c)

CacheNext ==
    \/ CacheGrantCall
    \/ CacheRevokeCall
    \/ CacheApplyCall
    \/ CacheUpdateUserCall
    \/ CacheReadCall

CacheSpec == Init /\ [][CacheNext]_vars

(***************************************************************************)
(* Specification of concurrent grants and revokes for one user: two        *)
(* callers, each call split into its read and its write, and applyTemplate *)
(* called while no grant or revoke is under way                            *)
(***************************************************************************)
RaceContexts == {Context(NULL, NULL), Context("O1", "T1")}
Reading == {caller \in Callers : inflight[caller].pc = "read"}

RaceReadCall ==
    \E caller \in Callers \ Reading, p \in GrantPaths, v \in BOOLEAN, c \in RaceContexts :
        /\ calls + Cardinality(Reading) < MaxCalls
        /\ updateCustomPermissionRead(caller, "A", p, v, c)

RaceWriteCall ==
    \E caller \in Reading : updateCustomPermissionWrite(caller)

RaceApplyCall ==
    /\ Reading = {}
    /\ calls < MaxCalls
    /\ \E c \in RaceContexts : applyTemplate("A", "TPL1", c)

RaceNext ==
    \/ RaceReadCall
    \/ RaceWriteCall
    \/ RaceApplyCall

RaceSpec == Init /\ [][RaceNext]_vars

(***************************************************************************)
(* Specification of concurrent assignManager calls: two callers assign     *)
(* manager A to B, with or without a team, each call split into its test,  *)
(* its level computation and its insert                                    *)
(***************************************************************************)
Assigning == {caller \in Callers : inflight[caller].pc \in {"checked", "levelled"}}

RaceCheckCall ==
    \E caller \in Callers \ Assigning, u \in {"A", "B"}, ts \in ScopeInputs :
        /\ BagCardinality(hierarchy) + Cardinality(Assigning) < MaxEdges
        /\ assignManagerCheck(caller, "A", u, ts[1], ts[2])

RaceLevelCall ==
    \E caller \in Callers : inflight[caller].pc = "checked" /\ assignManagerLevel(caller)

RaceInsertCall ==
    \E caller \in Callers : inflight[caller].pc = "levelled" /\ assignManagerInsert(caller)

AssignRaceNext ==
    \/ RaceCheckCall
    \/ RaceLevelCall
    \/ RaceInsertCall

AssignRaceSpec == Init /\ [][AssignRaceNext]_vars

(***************************************************************************)
(* Specification of getManagementChain: edges among three users are        *)
(* assigned and removed, and one caller walks the chain of a user, one     *)
(* iteration of the loop at a time, while the store is left alone          *)
(***************************************************************************)
ChainUsers == {"A", "B", "C"}
Walking == inflight["c1"].pc = "walking"

ChainAssignCall ==
    /\ ~Walking
    /\ \E m \in ChainUsers, u \in ChainUsers :
          /\ assignManager(m, u, "T1", "team")
          /\ BagCardinality(hierarchy') <= MaxEdges

ChainRemoveCall ==
    /\ ~Walking
    /\ \E m \in ChainUsers, u \in ChainUsers : removeManager(m, u, "T1")

ChainStartCall ==
    /\ ~Walking
    /\ \E u \in ChainUsers : getManagementChainStart("c1", u)

ChainStepCall ==
    /\ Walking
    /\ getManagementChainStep("c1")

ChainNext ==
    \/ ChainAssignCall
    \/ ChainRemoveCall
    \/ ChainStartCall
    \/ ChainStepCall

\* a call that was started runs on: its loop is not suspended for ever
ChainSpec == Init /\ [][ChainNext]_vars /\ WF_vars(ChainStepCall)

(***************************************************************************)
(* Specification of applyTemplate on assignments that hold overrides: one  *)
(* user, one template, requests without scope and for one organization     *)
(***************************************************************************)
TemplateContexts == {Context(NULL, NULL), Context("O1", NULL)}

TemplateGrantCall ==
    \E p \in GrantPaths, c \in TemplateContexts :
        /\ calls < MaxTemplateCalls
        /\ grantPermission("A", p, c)

TemplateRevokeCall ==
    \E p \in GrantPaths, c \in TemplateContexts :
        /\ calls < MaxTemplateCalls
        /\ revokePermission("A", p, c)

TemplateApplyCall ==
    \E c \in TemplateContexts :
        /\ calls < MaxTemplateCalls
        /\ applyTemplate("A", "TPL2", c)

TemplateNext ==
    \/ TemplateGrantCall
    \/ TemplateRevokeCall
    \/ TemplateApplyCall

TemplateSpec == Init /\ [][TemplateNext]_vars

(***************************************************************************)
(* Specification of the assignments of two users                           *)
(***************************************************************************)
IsolationUsers == {"A", "B"}
IsolationContexts == {Context(NULL, NULL), Context("O1", "T1")}

IsolationGrantCall ==
    \E u \in IsolationUsers, c \in IsolationContexts :
        /\ calls < MaxCalls
        /\ grantPermission(u, <<"tasks", "create">>, c)

IsolationRevokeCall ==
    \E u \in IsolationUsers, c \in IsolationContexts :
        /\ calls < MaxCalls
        /\ revokePermission(u, <<"tasks", "create">>, c)

IsolationApplyCall ==
    \E u \in IsolationUsers, c \in IsolationContexts :
        /\ calls < MaxCalls
        /\ applyTemplate(u, "TPL2", c)

IsolationNext ==
    \/ IsolationGrantCall
    \/ IsolationRevokeCall
    \/ IsolationApplyCall

IsolationSpec == Init /\ [][IsolationNext]_vars

(***************************************************************************)
(* Specification of mergePermissions as a function of its arguments        *)
(***************************************************************************)
MergeLeaves ==
    {<<"tasks", "create">>, <<"tasks", "view_own">>,
     <<"resources", "manage">>, <<"reports", "export">>}

BaseDocuments ==
    {RoleDefault(r) : r \in DOMAIN DEFAULT_ROLE_PERMISSIONS} \cup {EmptyDocument}

OverrideDocuments ==
    UNION {[S -> BOOLEAN] : S \in SUBSET MergeLeaves}
        \cup {TemplateStore[t].permissions : t \in DOMAIN TemplateStore}

MergeInit ==
    /\ users = InitialUsers
    /\ hierarchy = EmptyBag
    /\ outcome = "ok"
    /\ assignments = <<>>
    /\ calls = 0
    /\ mergeArgs \in BaseDocuments \X OverrideDocuments
    /\ mergeResult = <<>>
    /\ inflight = NoCalls

MergeCall ==
    /\ mergeResult = <<>>
    /\ mergeResult' = <<mergePermissions(mergeArgs[1], mergeArgs[2])>>
    /\ UNCHANGED <<users, outcome, mergeArgs, hierarchyVars, permissionVars, callVars>>

MergeNext == MergeCall

MergeSpec == MergeInit /\ [][MergeNext]_vars

(***************************************************************************)
(* Specification of the merge of a template and custom overrides onto a    *)
(* base, done once and then once more onto its own result                  *)
(***************************************************************************)
\* effective = merge(merge(base, template), custom)
MergeOnto(base, template, custom) ==
    mergePermissions(mergePermissions(base, template), custom)

TemplateDocuments ==
    UNION {[S -> BOOLEAN] : S \in SUBSET {<<"tasks", "create">>, <<"reports", "export">>}}
        \cup {TemplateStore[t].permissions : t \in DOMAIN TemplateStore}

RemergeInit ==
    /\ users = InitialUsers
    /\ hierarchy = EmptyBag
    /\ outcome = "ok"
    /\ assignments = <<>>
    /\ calls = 0
    /\ mergeArgs \in BaseDocuments \X TemplateDocuments \X OverrideDocuments
    /\ mergeResult = <<>>
    /\ inflight = NoCalls

\* mergeResult holds the documents merged so far: onto the base, then onto
\* the previous result
MergeOntoCall ==
    /\ Len(mergeResult) < 2
    /\ mergeResult' =
         Append(mergeResult,
                MergeOnto(IF mergeResult = <<>> THEN mergeArgs[1]
                                                ELSE mergeResult[Len(mergeResult)],
                          mergeArgs[2], mergeArgs[3]))
    /\ UNCHANGED <<users, outcome, mergeArgs, hierarchyVars, permissionVars, callVars>>

RemergeNext == MergeOntoCall

RemergeSpec == RemergeInit /\ [][RemergeNext]_vars

(***************************************************************************)
(* Properties of the hierarchy graph                                       *)
(***************************************************************************)
\* the directed graph of active level-1 edges
DirectEdges ==
    {<<r.manager_id, r.manages_user_id>> : r \in {x \in ActiveRows : x.level = 1}}

RECURSIVE Closure(_)
Closure(S) ==
    LET next == S \cup {e[2] : e \in {d \in DirectEdges : d[1] \in S}}
    IN IF next = S THEN S ELSE Closure(next)

\* the users a manages through one or more active level-1 edges
ManagedBy(a) == Closure({e[2] : e \in {d \in DirectEdges : d[1] = a}})

NoDuplicates(s) == \A i, j \in 1..Len(s) : s[i] = s[j] => i = j

\* C1: after any sequence of assignManager and removeManager calls the graph
\* of active level-1 edges has no cycle (no user transitively manages itself).
C1_DirectEdgesAcyclic == \A u \in UserIds : u \notin ManagedBy(u)

\* C5: getAllReports(m) terminates and returns a result for every manager m
\* in every state of the edge store, cyclic ones included.
C5_GetAllReportsReturns == \A m \in UserIds : getAllReports(m).returns

\* the store holds exactly the three rows of the chain A->B, B->C, C->D, all active
ChainABCD ==
    /\ BagCardinality(hierarchy) = 3
    /\ {<<r.manager_id, r.manages_user_id>> : r \in ActiveRows}
           = {<<"A", "B">>, <<"B", "C">>, <<"C", "D">>}
    /\ \A id \in {"A", "B", "C", "D"} : users[id].active

\* C6: when the edges A->B, B->C, C->D were created by three assignManager
\* calls, in whichever order, getAllReports(A) returns exactly {B, C, D}.
C6_ChainReports ==
    ChainABCD =>
        /\ getAllReports("A").returns
        /\ Range(getAllReports("A").reportUsers) = {"B", "C", "D"}

C6_Witness ==
    /\ ChainABCD
    /\ Range(getAllReports("A").reportUsers) = {"B", "C", "D"}

\* C7: the list returned by getAllReports(m) contains no user more than once.
C7_NoDuplicateReports ==
    \A m \in UserIds :
        getAllReports(m).returns => NoDuplicates(getAllReports(m).reportUsers)

\* C11: assignManager(u, u, ...) is rejected for every u, existing or not,
\* every team and every scope kind, and creates no edge; no edge of a
\* reachable store has its manager as its managed user.
C11_SelfManagementRejected ==
    [][/\ \A u \in ManagerInputs \cap ManagedInputs, ts \in ScopeInputs :
             assignManager(u, u, ts[1], ts[2]) => (outcome' = "self" /\ UNCHANGED hierarchy)
       /\ \A r \in DOMAIN hierarchy' : r.manager_id # r.manages_user_id]_vars

C11_Witness ==
    /\ outcome = "self"
    /\ ActiveRows # {}

\* the active rows of the tuple (manager, managed user, team, scope kind)
ActiveEdges(m, u, t, s) ==
    CountRows({r \in ActiveRows :
                  /\ r.manager_id = m
                  /\ r.manages_user_id = u
                  /\ r.team_id = t
                  /\ r.scope = s}, hierarchy)

\* C12: there is at most one active edge per (manager, managed user, team,
\* scope kind), and assignManager for a tuple that has an active edge is
\* rejected and leaves the edge store unchanged.
C12_OneActiveEdgePerTuple ==
    [][\A m \in ManagerInputs, u \in ManagedInputs, ts \in ScopeInputs :
          /\ ActiveEdges(m, u, ts[1], ts[2])' <= 1
          /\ (ActiveEdges(m, u, ts[1], ts[2]) >= 1 /\ assignManager(m, u, ts[1], ts[2]))
                => (outcome' # "ok" /\ UNCHANGED hierarchy)]_vars

\* C13: every edge connects a manager and a managed user of the edge's
\* organization: assignManager between users of different organizations is
\* rejected without creating an edge, and no later call, updateUser with
\* another organization included, makes an edge cross organizations.
C13_EdgesWithinOrganization ==
    [][/\ \A r \in DOMAIN hierarchy' :
             /\ users'[r.manager_id].organization_id = r.organization_id
             /\ users'[r.manages_user_id].organization_id = r.organization_id
       /\ \A m \in OrgManagers, u \in OrgManaged, ts \in ScopeInputs :
             (/\ users[m].organization_id # users[u].organization_id
              /\ assignManager(m, u, ts[1], ts[2]))
                => (outcome' = "cross_org" /\ UNCHANGED hierarchy)]_vars

\* an assignManager of another organization's manager was rejected after D,
\* who has a manager, was updated with another organization
C13_Witness ==
    /\ outcome = "cross_org"
    /\ ~users["D"].active
    /\ users["D"].organization_id = "O1"
    /\ \E r \in ActiveRows : r.manages_user_id = "D"

\* the rows from m to u with team scope t (NULL: no team)
EdgesOf(m, u, t, rows) ==
    {r \in rows : r.manager_id = m /\ r.manages_user_id = u /\ r.team_id = t}

\* C14: removeManager(m, u, team) ends every active edge from m to u with
\* that team scope (active = false, end timestamp set), deletes no record,
\* raises no error, and changes no edge when no matching active edge exists
\* (so a second identical call changes nothing).
C14_RemoveManagerSoftDeletes ==
    [][\A m \in ManagerInputs \cap UserIds, u \in ManagedInputs \cap UserIds,
          t \in TeamInputs :
          removeManager(m, u, t) =>
              /\ outcome' = "ok"
              /\ BagCardinality(hierarchy') = BagCardinality(hierarchy)
              /\ \A r \in EdgesOf(m, u, t, DOMAIN hierarchy') : ~r.active /\ r.ended
              /\ EdgesOf(m, u, t, ActiveRows) = {} => UNCHANGED hierarchy]_vars

\* the ended rows of the tuple (manager, managed user, team, scope kind)
EndedEdges(m, u, t, s) ==
    {r \in EdgesOf(m, u, t, DOMAIN hierarchy) : r.scope = s /\ ~r.active}

\* C15: an edge record only moves from active to inactive (no step lowers the
\* number of inactive copies of a record), and assignManager for a tuple
\* whose earlier edge was removed succeeds with a new active record while
\* the removed record stays in the store.
C15_NoResurrection ==
    [][/\ \A r \in DOMAIN hierarchy :
             ~r.active => (r \in DOMAIN hierarchy' /\ hierarchy'[r] >= hierarchy[r])
       /\ \A m \in ManagerInputs \cap UserIds, u \in ManagedInputs \cap UserIds,
             ts \in ScopeInputs :
             (/\ m # u
              /\ EndedEdges(m, u, ts[1], ts[2]) # {}
              /\ ActiveEdges(m, u, ts[1], ts[2]) = 0
              /\ assignManager(m, u, ts[1], ts[2]))
                => /\ outcome' = "ok"
                   /\ ActiveEdges(m, u, ts[1], ts[2])' = 1
                   /\ BagCardinality(hierarchy') = BagCardinality(hierarchy) + 1]_vars

\* an active direct edge from m to u exists
DirectEdge(m, u) == <<m, u>> \in DirectEdges

\* the edge store holds a row, active or ended, between a and c
EdgeBetween(a, c) ==
    \E r \in DOMAIN hierarchy :
        {r.manager_id, r.manages_user_id} = {a, c}

\* C16: with active direct edges A->B and B->C and no edge between A and C,
\* assignManager(A, C) succeeds and stores an active edge of level 2, and
\* afterwards C is among getAllReports(A).
C16_IndirectEdgeLevel ==
    [][(/\ DirectEdge("A", "B")
        /\ DirectEdge("B", "C")
        /\ ~EdgeBetween("A", "C")
        /\ assignManager("A", "C", "T1", "team"))
          => /\ outcome' = "ok"
             /\ \E r \in ActiveRows' :
                   r.manager_id = "A" /\ r.manages_user_id = "C" /\ r.level = 2
             /\ (getAllReports("A").returns)'
             /\ ("C" \in Range(getAllReports("A").reportUsers))']_vars

\* C26: wherever getAllReports(m) returns, canManage(m, u) returns, and it is
\* true exactly when an active level-1 edge from m to u exists or u is in
\* getAllReports(m).
C26_CanManageExact ==
    \A m \in UserIds, u \in UserIds :
        getAllReports(m).returns =>
            /\ canManage(m, u).returns
            /\ canManage(m, u).value =
                  (DirectEdge(m, u) \/ u \in Range(getAllReports(m).reportUsers))

\* every element of the chain manages the element before it (the first one
\* manages the user) through an active row of the lowest level
IsWalkUp(userId, chain) ==
    \A i \in 1..Len(chain) :
        \E r \in ManagerRows(IF i = 1 THEN userId ELSE chain[i - 1]) :
            r.manager_id = chain[i]

\* C27: getManagementChain(u) terminates in every state of the edge store,
\* cyclic ones included; the chain it returns goes upward from u one manager
\* at a time over an active edge of the lowest level, and no user appears in
\* it twice.
C27_ChainTerminates ==
    /\ [][(Walking /\ inflight'["c1"].pc = "done") =>
             /\ NoDuplicates(inflight'["c1"].chain)
             /\ IsWalkUp(inflight'["c1"].userId, inflight'["c1"].chain)
             /\ inflight'["c1"].chain \in getManagementChain(inflight'["c1"].userId)]_vars
    /\ (inflight["c1"].pc = "walking") ~> (inflight["c1"].pc = "done")

\* the chain of a user on a cycle of level-1 edges was walked: it went round
\* the cycle once
C27_Witness ==
    /\ inflight["c1"].pc = "done"
    /\ inflight["c1"].userId \in ManagedBy(inflight["c1"].userId)
    /\ IsWalkUp(inflight["c1"].userId, inflight["c1"].chain)
    /\ Len(inflight["c1"].chain) = 3
    /\ inflight["c1"].chain[3] = inflight["c1"].userId

(***************************************************************************)
(* Properties of the permission assignments                                *)
(***************************************************************************)
\* the paths checkPermission is asked about
CheckPaths ==
    GrantPaths \cup
    {<<"unknown", "path">>, <<"tasks", "nope">>, <<"tasks">>,
     <<"tasks", "create", "x">>, <<"">>}

\* the context that names exactly the scope of a row
RowContext(row) == Context(row.organization_id, row.team_id)

\* an assignment stored for exactly (userId, context.orgId, context.teamId)
ExactRows(userId, context) ==
    {i \in 1..Len(assignments) :
        /\ assignments[i].user_id = userId
        /\ assignments[i].organization_id = context.orgId
        /\ assignments[i].team_id = context.teamId}

Granted(userId, parts, context) == checkPermission(userId, parts, context).granted

\* leaf p of (userId, context) was revoked: its assignment stores p = false
Revoked(userId, p, context) ==
    \E i \in ExactRows(userId, context) :
        /\ assignments[i].custom_permissions # <<>>
        /\ p \in DOMAIN assignments[i].custom_permissions[1]
        /\ assignments[i].custom_permissions[1][p] = FALSE

\* a grant of another leaf in the same scope, or a grant or revoke in another scope
UnrelatedChange(userId, p, context) ==
    \E q \in GrantPaths, c \in ContextInputs :
        \/ c = context /\ q # p /\ grantPermission(userId, q, c)
        \/ c # context /\ (grantPermission(userId, q, c) \/ revokePermission(userId, q, c))

\* C2: after revokePermission(u, p, scope) checkPermission(u, p, scope) is
\* false, and it stays false over a later grant of a different leaf in that
\* scope and over grants and revokes for u in other scopes.
C2_RevokePersists ==
    [][\A p \in GrantPaths, c \in ContextInputs :
          /\ revokePermission("A", p, c) => ~Granted("A", p, c)'
          /\ (Revoked("A", p, c) /\ ~Granted("A", p, c) /\ UnrelatedChange("A", p, c))
                => ~Granted("A", p, c)']_vars

\* C3: while grant, revoke and applyTemplate were used on one (user, scope),
\* so that one assignment exists, every leaf of its stored custom overrides
\* has the override's value in the document getEffectivePermissions returns.
C3_CustomWins ==
    (Len(assignments) = 1 /\ assignments[1].custom_permissions # <<>>) =>
        LET row == assignments[1]
            custom == row.custom_permissions[1]
            effective == getEffectivePermissions(row.user_id, RowContext(row)).permissions
        IN \A p \in DOMAIN custom : p \in DOMAIN effective /\ effective[p] = custom[p]

\* C4: the store holds at most one assignment per (user, org scope, team scope).
C4_OneAssignmentPerScope ==
    \A i, j \in 1..Len(assignments) :
        (/\ assignments[i].user_id = assignments[j].user_id
         /\ assignments[i].organization_id = assignments[j].organization_id
         /\ assignments[i].team_id = assignments[j].team_id) => i = j

HasCategory(doc, category) == \E q \in DOMAIN doc : q[1] = category
HasAction(doc, category, action) ==
    \E q \in DOMAIN doc : Len(q) >= 2 /\ q[1] = category /\ q[2] = action

\* what checkPermission promises for the users in U
FailsClosed(U) ==
    \A u \in U, c \in ContextInputs :
        LET effective == getEffectivePermissions(u, c).permissions
        IN \A path \in CheckPaths :
             LET result == checkPermission(u, path, c)
             IN /\ ~result.throws
                /\ result.granted => (path \in DOMAIN effective /\ effective[path] = TRUE)
                /\ ~HasCategory(effective, path[1]) => ~result.granted
                /\ (Len(path) >= 2 /\ ~HasAction(effective, path[1], path[2]))
                      => ~result.granted

\* C8 as stated: checkPermission(u, path, scope) never raises for any user u
\* and any path, returns false when the category or action is absent and
\* true only for a leaf that is the literal true.
C8_NeverRaises == FailsClosed(ReadUsers \cup {UnknownUser})

\* C8 amended: the same for every user that exists; for an id with no user
\* row checkPermission raises 'User not found'.
C8_FailsClosedForKnownUsers ==
    /\ FailsClosed(ReadUsers)
    /\ \A path \in CheckPaths, c \in ContextInputs :
          checkPermission(UnknownUser, path, c).throws

C8_Witness ==
    \E c \in ContextInputs :
        /\ ExactRows("A", c) # {}
        /\ Granted("A", <<"resources", "manage">>, c)
        /\ ~Granted("A", <<"tasks", "create">>, c)
        /\ ~Granted("A", <<"unknown", "path">>, c)
        /\ ~Granted("A", <<"tasks">>, c)

\* C9: when no assignment exists for the requested (user, org, team),
\* getEffectivePermissions returns the role default of the user's base role
\* and writes nothing.
C9_DefaultWithoutAssignment ==
    \A u \in UserIds, c \in ContextInputs :
        ExactRows(u, c) = {} =>
            /\ getEffectivePermissions(u, c).permissions = RoleDefault(users[u].role)
            /\ getEffectivePermissions(u, c).writes = 0

\* C17: a mutation that fails changes neither store; grantPermission and
\* revokePermission for an unknown user and applyTemplate for an unknown
\* template or an unknown user fail with a not-found error; a rejected
\* assignManager creates no edge.
C17_FailedMutationChangesNothing ==
    [][/\ outcome' # "ok" => (assignments' = assignments /\ hierarchy' = hierarchy)
       /\ \A c \in FailContexts :
             (\/ grantPermission(UnknownUser, <<"tasks", "create">>, c)
              \/ revokePermission(UnknownUser, <<"tasks", "create">>, c))
                => outcome' = "user_not_found"
       /\ \A u \in FailUsers, t \in FailTemplates, c \in FailContexts :
             ((u = UnknownUser \/ t = UnknownTemplate) /\ applyTemplate(u, t, c))
                => outcome' \in {"user_not_found", "template_not_found"}
       /\ \A m \in FailManagers, u \in FailManaged :
             (AssignCheck(m, u, "T1", "team") # "ok" /\ assignManager(m, u, "T1", "team"))
                => (outcome' # "ok" /\ UNCHANGED hierarchy)]_vars

\* a call for an unknown user failed on stores that hold an assignment and an edge
C17_Witness ==
    /\ outcome = "user_not_found"
    /\ Len(assignments) >= 1
    /\ ActiveRows # {}

\* the custom overrides stored in a row hold leaf q
HasOverride(row, q) ==
    row.custom_permissions # <<>> /\ q \in DOMAIN row.custom_permissions[1]

\* the row getEffectivePermissions(userId, context) reads
AnsweringRow(userId, context) == assignments[Latest(MatchingRows(userId, context))]

\* C18: after a grantPermission(u, p, scope) that succeeds,
\* checkPermission(u, p, scope) is true, the assignment that answers for
\* (u, scope) has source custom, and every override stored earlier for another
\* leaf of (u, scope) keeps its value in the stored overrides and in the
\* effective document.
C18_GrantKeepsOverrides ==
    [][\A p \in GrantPaths, c \in ContextInputs :
          (grantPermission("A", p, c) /\ outcome' = "ok") =>
              /\ Granted("A", p, c)'
              /\ AnsweringRow("A", c)'.source = "custom"
              /\ \A q \in GrantPaths \ {p}, i \in ExactRows("A", c) :
                    HasOverride(assignments[i], q) =>
                        LET kept == assignments[i].custom_permissions[1][q]
                            effective == (getEffectivePermissions("A", c).permissions)'
                        IN /\ HasOverride(AnsweringRow("A", c)', q)
                           /\ AnsweringRow("A", c)'.custom_permissions[1][q] = kept
                           /\ q \in DOMAIN effective
                           /\ effective[q] = kept]_vars

(***************************************************************************)
(* Properties of mergePermissions                                          *)
(***************************************************************************)
Categories(doc) == {p[1] : p \in DOMAIN doc}

\* C10: in mergePermissions(base, override) every leaf of override has
\* override's value, every leaf of base absent from override keeps base's
\* value, and no category of base is dropped; merging the template
\* {resources: {manage: true}} onto the member default gives
\* resources.manage = true and leaves tasks.view_own true.
C10_MergeKeepsBase ==
    mergeResult # <<>> =>
        LET base == mergeArgs[1]
            override == mergeArgs[2]
            merged == mergeResult[1]
        IN /\ \A p \in DOMAIN override : p \in DOMAIN merged /\ merged[p] = override[p]
           /\ \A p \in DOMAIN base \ DOMAIN override :
                 p \in DOMAIN merged /\ merged[p] = base[p]
           /\ Categories(base) \subseteq Categories(merged)
           /\ (base = RoleDefault("member") /\ override = TemplateStore.TPL1.permissions)
                 => /\ merged[<<"resources", "manage">>] = TRUE
                    /\ merged[<<"tasks", "view_own">>] = TRUE

(***************************************************************************)
(* Specification of the role lookup: a role and a permission are drawn,    *)
(* the role's defaults are looked up and the permission is read from them  *)
(***************************************************************************)
\* type UserRole
UserRole == {"super_admin", "org_admin", "senior_manager", "manager", "lead", "member"}

\* the leaves of PermissionTemplate['permissions']
PermissionLeaves ==
    {<<"tasks", a>> : a \in {"view_own", "view_team", "create", "edit_own",
                              "edit_team", "delete_own", "approve"}}
    \cup {<<"timesheet", a>> : a \in {"view_own", "view_team", "edit_own", "approve_team"}}
    \cup {<<"leaves", a>> : a \in {"view_own", "view_team", "request", "approve_team"}}
    \cup {<<"resources", a>> : a \in {"view", "book", "allocate", "manage"}}
    \cup {<<"analytics", a>> : a \in {"view_own", "view_team", "view_org"}}
    \cup {<<"members", a>> : a \in {"view", "add", "edit", "remove"}}

\* user.role as the lookup may receive it: a role, no value, or another string
RoleInputs == UserRole \cup {NULL, "guest"} \cup InheritedKeys

RoleInit ==
    /\ users = InitialUsers
    /\ hierarchy = EmptyBag
    /\ outcome = "ok"
    /\ assignments = <<>>
    /\ calls = 0
    /\ mergeArgs \in RoleInputs \X PermissionLeaves
    /\ mergeResult = <<>>
    /\ inflight = NoCalls

\* the defaults of the role, and the permission as checkPermission reads it
\* from them when the user has no assignment
RoleDefaultCall ==
    /\ mergeResult = <<>>
    /\ mergeResult' = <<RoleDefault(mergeArgs[1]),
                        WalkParts(RoleDefault(mergeArgs[1]), mergeArgs[2], 1, <<>>)>>
    /\ UNCHANGED <<users, outcome, mergeArgs, hierarchyVars, permissionVars, callVars>>

RoleNext == RoleDefaultCall

RoleSpec == RoleInit /\ [][RoleNext]_vars

TeamRowWiderRequest(row, c) ==
    /\ row.organization_id # NULL
    /\ row.team_id # NULL
    /\ c.teamId = NULL
    /\ c.orgId \in {row.organization_id, NULL}

\* the row is stored for the org without a team and the request names a team
OrgRowTeamRequest(row, c) ==
    /\ row.organization_id # NULL
    /\ row.team_id = NULL
    /\ c.orgId = row.organization_id
    /\ c.teamId # NULL

\* C22: an assignment stored for (u, O, T) is not used for a request for
\* (u, O) or for u without scope, and an assignment stored for (u, O) is not
\* used for a request scoped to team T; where no assignment has exactly the
\* requested scope the role default is returned.
C22_ScopeMatchingExact ==
    \A i \in 1..Len(assignments), c \in ContextInputs :
        (/\ assignments[i].user_id = "A"
         /\ TeamRowWiderRequest(assignments[i], c) \/ OrgRowTeamRequest(assignments[i], c))
            => /\ MatchingRows("A", c) # {} => Latest(MatchingRows("A", c)) # i
               /\ ExactRows("A", c) = {} =>
                     getEffectivePermissions("A", c).permissions =
                         RoleDefault(users["A"].role)

\* C23: for an assignment with a template, a grant or revoke of leaf p in its
\* (user, scope) makes checkPermission of p the granted or revoked value, and
\* the leaves that only the template sets keep the template's value.
C23_CustomOverTemplate ==
    [][\A p \in GrantPaths, c \in ContextInputs, v \in BOOLEAN :
        \A i \in ExactRows("A", c) :
          (/\ assignments[i].template_id # NULL
           /\ updateCustomPermission("A", p, v, c)
           /\ outcome' = "ok") =>
              LET template == TemplateStore[assignments[i].template_id].permissions
                  effective == (getEffectivePermissions("A", c).permissions)'
              IN /\ Granted("A", p, c)' = v
                 /\ \A q \in DOMAIN template \ {p} :
                       ~HasOverride(assignments[i], q) =>
                           q \in DOMAIN effective /\ effective[q] = template[q]]_vars

\* both callers have returned without error from calls for different leaves
\* of one (user, scope) that read the same row, "last" wrote after "first"
\* and no call wrote since, and "last" had read before "first" wrote
Raced(first, last) ==
    /\ inflight[first].pc = "done" /\ inflight[last].pc = "done"
    /\ inflight[first].result = "ok" /\ inflight[last].result = "ok"
    /\ inflight[first].userId = inflight[last].userId
    /\ inflight[first].context = inflight[last].context
    /\ inflight[first].parts # inflight[last].parts
    /\ inflight[first].existing # <<>>
    /\ inflight[last].existing # <<>>
    /\ inflight[first].existing[1].id = inflight[last].existing[1].id
    /\ inflight[first].at < inflight[last].at
    /\ inflight[last].at = calls
    /\ ~HasOverride(inflight[last].existing[1], inflight[first].parts)

\* C24: when two grants or revokes for different leaves of one (user, scope)
\* have interleaved so that the last writer had read the row before the other
\* wrote, both have returned without error and the stored custom overrides
\* hold the last writer's leaf and not the other call's leaf.
C24_LastWriterWins ==
    \A first, last \in Callers :
        Raced(first, last) =>
            LET row == assignments[RowById(inflight[last].existing[1].id)]
            IN /\ HasOverride(row, inflight[last].parts)
               /\ row.custom_permissions[1][inflight[last].parts] = inflight[last].value
               /\ ~HasOverride(row, inflight[first].parts)

\* the two calls raced on an assignment without overrides: only the last
\* writer's leaf is stored
C24_Witness ==
    /\ Raced("c1", "c2")
    /\ inflight["c1"].existing[1].custom_permissions = <<>>
    /\ DOMAIN assignments[RowById(inflight["c2"].existing[1].id)].custom_permissions[1]
          = {inflight["c2"].parts}

\* C25: under every interleaving of two concurrent assignManager calls there
\* is at most one active edge per (manager, managed user, team, scope kind),
\* and of two calls for one tuple at most one ends with a new active edge.
C25_OneActiveEdgeUnderRace ==
    /\ \A ts \in ScopeInputs : ActiveEdges("A", "B", ts[1], ts[2]) <= 1
    /\ ~ /\ inflight["c1"].pc = "done" /\ inflight["c2"].pc = "done"
         /\ inflight["c1"].result = "ok" /\ inflight["c2"].result = "ok"
         /\ inflight["c1"].managesUserId = inflight["c2"].managesUserId
         /\ inflight["c1"].teamId = inflight["c2"].teamId
         /\ inflight["c1"].scope = inflight["c2"].scope

\* the row of the store that has the given id, in <<>> when there is none
RowWithId(rows, id) ==
    SelectSeq(rows, LAMBDA row : row.id = id)

\* C28: applyTemplate leaves the stored custom overrides (and the user and
\* scope) of every existing assignment unchanged, and a later grant or revoke
\* in the (user, scope) of an assignment with a template and overrides makes
\* the effective document the merge of the role default, that template and
\* all the overrides with the new leaf.
C28_ApplyTemplateKeepsOverrides ==
    [][/\ \A c \in TemplateContexts :
             applyTemplate("A", "TPL2", c) =>
                 \A i \in 1..Len(assignments) :
                     LET after == RowWithId(assignments', assignments[i].id)
                     IN /\ Len(after) = 1
                        /\ after[1].custom_permissions = assignments[i].custom_permissions
                        /\ after[1].user_id = assignments[i].user_id
                        /\ after[1].organization_id = assignments[i].organization_id
                        /\ after[1].team_id = assignments[i].team_id
       /\ \A p \in GrantPaths, c \in TemplateContexts, v \in BOOLEAN :
             \A i \in ExactRows("A", c) :
                 (/\ assignments[i].template_id # NULL
                  /\ assignments[i].custom_permissions # <<>>
                  /\ updateCustomPermission("A", p, v, c)) =>
                     (getEffectivePermissions("A", c).permissions)' =
                         MergeOnto(RoleDefault(users["A"].role),
                                   TemplateStore[assignments[i].template_id].permissions,
                                   SetPath(assignments[i].custom_permissions[1], p, v))]_vars

\* the assignment records of the user, in the order of the store
RowsOf(userId) == SelectSeq(assignments, LAMBDA row : row.user_id = userId)

\* a grant, revoke or applyTemplate on the user, in any scope
ChangeOn(userId) ==
    \E c \in IsolationContexts :
        \/ grantPermission(userId, <<"tasks", "create">>, c)
        \/ revokePermission(userId, <<"tasks", "create">>, c)
        \/ applyTemplate(userId, "TPL2", c)

\* C29: a grant, revoke or applyTemplate on user v changes no assignment
\* record of another user u and no document getEffectivePermissions returns
\* for u, in any scope.
C29_UsersIsolated ==
    [][\A u \in IsolationUsers, v \in IsolationUsers :
          (u # v /\ ChangeOn(v)) =>
              /\ RowsOf(u)' = RowsOf(u)
              /\ \A c \in ContextInputs :
                    (getEffectivePermissions(u, c).permissions)' =
                        getEffectivePermissions(u, c).permissions]_vars

\* user B's assignment was changed last while user A holds an assignment
\* of the same scope with an override
C29_Witness ==
    /\ Len(assignments) >= 2
    /\ assignments[Len(assignments)].user_id = "B"
    /\ assignments[Len(assignments)].source = "template"
    /\ \E i \in 1..Len(assignments) :
          /\ assignments[i].user_id = "A"
          /\ RowContext(assignments[i]) = RowContext(assignments[Len(assignments)])
          /\ assignments[i].custom_permissions # <<>>

\* C30: every assignment that grantPermission, revokePermission or
\* applyTemplate has created or updated carries a cached effective document,
\* and getEffectivePermissions and checkPermission leave the assignment store
\* unchanged.
C30_ReadsChangeNothing ==
    [][/\ \A i \in 1..Len(assignments') : assignments'[i].effective_permissions # <<>>
       /\ \A u \in ReadUsers, c \in ContextInputs :
             /\ (getEffectivePermissions(u, c).writes)' = 0
             /\ (\/ GetEffectivePermissionsCall(u, c)
                 \/ CheckPermissionCall(u, <<"tasks", "create">>, c))
                   => UNCHANGED assignments]_vars

\* assignments written by applyTemplate and by a grant or revoke are in the
\* store, and a request is answered from the cached document of one of them
C30_Witness ==
    /\ \E i, j \in 1..Len(assignments) :
          assignments[i].source = "template" /\ assignments[j].source = "custom"
    /\ \E c \in ContextInputs :
          /\ MatchingRows("A", c) # {}
          /\ getEffectivePermissions("A", c).writes = 0
          /\ getEffectivePermissions("A", c).permissions =
                AnsweringRow("A", c).effective_permissions[1]

\* C21: after the role of the user was changed through updateUser, a template
\* was applied or a custom override was set, getEffectivePermissions returns
\* for an assignment the merge of the current role default, the current
\* template and the current custom overrides, never an older cached document.
C21_CacheFollowsInputs ==
    \A c \in CacheContexts :
        MatchingRows("A", c) # {} =>
            getEffectivePermissions("A", c).permissions =
                RecomputedPermissions(AnsweringRow("A", c), RoleDefault(users["A"].role))

\* C19: merging the template and then the custom overrides onto the result
\* of having merged them already yields the document of merging them once.
C19_MergeIdempotent ==
    Len(mergeResult) = 2 => mergeResult[2] = mergeResult[1]

\* merged twice, with a template and overrides that both change the base
C19_Witness ==
    /\ Len(mergeResult) = 2
    /\ mergeArgs[1] = RoleDefault("member")
    /\ mergeArgs[2] = TemplateStore.TPL2.permissions
    /\ mergeArgs[3] = (<<"resources", "manage">> :> TRUE @@ <<"tasks", "create">> :> FALSE)
    /\ mergeResult[1] # mergeArgs[1]
    /\ mergeResult[1][<<"tasks", "view_team">>] = TRUE
    /\ mergeResult[1][<<"tasks", "create">>] = FALSE

C10_Witness ==
    /\ mergeResult # <<>>
    /\ mergeArgs[1] = RoleDefault("member")
    /\ mergeArgs[2] = TemplateStore.TPL1.permissions
    /\ RoleDefault("member")[<<"resources", "manage">>] = FALSE
    /\ mergeResult[1][<<"resources", "manage">>] = TRUE

====
